---------------------------- MODULE Spec2Model ----------------------------
(***************************************************************************)
(* Model of the neuron-ablation helper of ablate/ablate_ensemble.ipynb.    *)
(*                                                                         *)
(* The simulation context (nengo.Simulator) is a store of resolved arrays  *)
(* keyed by population: scaled encoders (one vector per unit), biases and  *)
(* gains.  ablate_ensemble(ens, proportion, sim, bias) draws indices from   *)
(* the global numpy generator, zeroes the encoders of the drawn units and, *)
(* when asked, sets their bias to -1000.                                   *)
(*                                                                         *)
(* Real numbers are modelled exactly: a proportion is the rational         *)
(* pn / PDen, encoder components, biases and gains are integers standing   *)
(* for the built values (never 0 for an encoder, never -1000 for a bias).  *)
(*                                                                         *)
(* Two further notebooks are modelled by specifications of their own:     *)
(* DataSpec is generate_data of deeplearning/CircularConvolution-         *)
(* Optimized-SoftLIFRate.ipynb (the shapes of the arrays it returns) and   *)
(* SeqSpec is the rule table of htbab_tutorials/ch7-spa-sequence-routed-   *)
(* cleanup-all.ipynb at the level of symbols.  NotebookSpec follows the    *)
(* cells of the ablation notebook, Spec takes its operations in any order. *)
(***************************************************************************)
EXTENDS Integers, Sequences, FiniteSets, TLC

(* ------------------------------ bounds --------------------------------- *)

\* units of the population `ens` (225 in the notebook)
NEns == 3

\* units of a second population held by the same simulation context
NOther == 1

\* proportions are the rationals pn / PDen
PDen == 2

\* number of states of the random generator
RngMod == 2

(* -------------------------- program constants -------------------------- *)

\* nengo.Ensemble(225, dimensions=2, radius=1.5)
Dims == 2

\* bias_sig[idx] = -1000
SuppressBias == -1000

(* ---------------------------- populations ------------------------------ *)

Pops == {"ens", "other"}

\* ens.n_neurons
n_neurons == [p \in Pops |-> IF p = "ens" THEN NEns ELSE NOther]

\* Populations for which the built context holds a 'bias' signal under
\* sim.model.sig[ens.neurons].  `other` stands for an ensemble whose neuron
\* type has no bias signal, so that the lookup of line 163 fails for it.
BiasPops == {"ens"}

Units(p) == 0 .. (n_neurons[p] - 1)

\* proportions offered to the helper: negative, 0, inside (0,1), 1, above 1
ProportionNums == (-1) .. (PDen + 1)

(* ------------------------------- state --------------------------------- *)

(* --------- generate_data of the circular-convolution notebook ---------- *)

\* n_steps = 300 (global of the notebook)
n_steps == 300

\* largest `dims` argument tried
MaxDims == 3

\* largest `seed` argument tried
MaxSeed == 2

\* largest `amount` argument tried
MaxAmount == 3

\* the `steps` arguments tried lie within this distance of n_steps
StepSpread == 2

StepsArgs == (n_steps - StepSpread) .. (n_steps + StepSpread)

(* ------------------- the routed-sequence SPA model --------------------- *)

\* simulated time is followed up to MaxTime tenths of a second
MaxTime == 20

\* if t < 0.4   (in tenths of a second)
InputEnd == 4

\* the coefficient 0.8 of START in '0.8*START+D'   (in tenths)
StartGain == 8

\* the coefficient 1 of a symbol, e.g. of D in '0.8*START+D'   (in tenths)
Unity == 10

\* the symbols the rules and the input name
Symbols == {"START", "A", "B", "C", "D", "E"}

VARIABLES
    phase,    \* "spec" (no context yet), "built", "ran", "closed"
    enc,      \* enc[p][i]: encoder vector of unit i (sim.signals[...['encoders']])
    bias,     \* bias[p][i]: bias of unit i          (sim.signals[...['bias']])
    gain,     \* gain[p][i]: gain of unit i
    encW,     \* encW[p]: WRITEABLE flag of the encoder array
    biasW,    \* biasW[p]: WRITEABLE flag of the bias array
    rng,      \* state of the global generator np.random
    last,     \* record of the most recent ablate_ensemble call
    negSize,  \* what the installed numpy does with a negative draw size
    pc,       \* position in the ablation notebook's cell script
    data,     \* arguments and returned shapes of the last generate_data call
    state,    \* semantic pointer held by model.state (routed-sequence model)
    time      \* simulation time of the routed-sequence model, in tenths of s

\* the simulation context and the generator used by ablate_ensemble
simVars == <<phase, enc, bias, gain, encW, biasW, rng, last, negSize>>

vars == <<phase, enc, bias, gain, encW, biasW, rng, last, negSize,
          pc, data, state, time>>

(* ------------------------- values of the build ------------------------- *)

ZeroVec == [d \in 1 .. Dims |-> 0]

\* the encoder the build gives unit i: a non-zero vector
BuiltEncoder(p, i) == [d \in 1 .. Dims |-> i + d]

\* the bias the build gives unit i: never the suppression constant
BuiltBias(p, i) == i + 1

BuiltGain(p, i) == i + 2

\* no resolved array exists
Absent == [p \in Pops |-> << >>]

\* variant: the build starts from a mask that already zeroes unit 0
BuiltEncMasked ==
    [p \in Pops |->
        [i \in Units(p) |-> IF i = 0 THEN ZeroVec ELSE [d \in 1 .. Dims |-> i + d]]]

\* the encoder arrays a build resolves
BuiltEnc == [p \in Pops |-> [i \in Units(p) |-> BuiltEncoder(p, i)]]

BuiltBiases ==
    [p \in Pops |-> IF p \in BiasPops THEN [i \in Units(p) |-> BuiltBias(p, i)]
                                      ELSE << >>]

BuiltGains == [p \in Pops |-> [i \in Units(p) |-> BuiltGain(p, i)]]

ReadOnly == [p \in Pops |-> FALSE]

NoCall ==
    [pop |-> "none", pn |-> 0, bias |-> FALSE, rng0 |-> 0,
     idx |-> << >>, err |-> "none"]

\* no cell script is being followed: the operations come in any order
FreePc == [at |-> "free", ablated |-> FALSE, prevK |-> 0]

\* between two cells of the ablation notebook; k units were ablated in the
\* context of the cell that ended last
BetweenCells(k) == [at |-> "cell", ablated |-> FALSE, prevK |-> k]

\* no generate_data call has been made
NoData ==
    [called |-> FALSE, dims |-> 0, seed |-> 0, amount |-> 0, steps |-> 0,
     A |-> << >>, B |-> << >>, C |-> << >>]

\* the model is specified, no context is open
SimInit ==
    /\ phase = "spec"
    /\ enc = Absent
    /\ bias = Absent
    /\ gain = Absent
    /\ encW = ReadOnly
    /\ biasW = ReadOnly
    /\ rng \in 0 .. (RngMod - 1)
    /\ last = NoCall
    /\ negSize \in {"raise", "slice"}

\* the ablation notebook is not in use
SimIdle ==
    /\ phase = "spec"
    /\ enc = Absent
    /\ bias = Absent
    /\ gain = Absent
    /\ encW = ReadOnly
    /\ biasW = ReadOnly
    /\ rng = 0
    /\ last = NoCall
    /\ negSize = "raise"
    /\ pc = FreePc

\* the circular-convolution notebook is not in use
DataIdle == data = NoData

\* the semantic pointer '0'
ZeroPtr == [s \in Symbols |-> 0]

\* the routed-sequence notebook is not in use
SeqIdle == state = ZeroPtr /\ time = 0

Init == SimInit /\ pc = FreePc /\ DataIdle /\ SeqIdle

(* --------------------------- pure functions ---------------------------- *)

Min(a, b) == IF a <= b THEN a ELSE b

Max(a, b) == IF a >= b THEN a ELSE b

\* Python int(num / den) for den > 0: truncation toward zero
IntTrunc(num, den) ==
    IF num >= 0 THEN num \div den ELSE -((-num) \div den)

\* variant: floor() in place of int()
NSelectQFloor(N, num, den) == Min((N * num) \div den, N)

\* variant: the count is clamped one short of the population size
NSelectQShort(N, num, den) == Min(IntTrunc(N * num, den), N - 1)

\* n_neurons = min(int(ens.n_neurons * proportion), ens.n_neurons)
\* for the proportion num / den
NSelectQ(N, num, den) == Min(IntTrunc(N * num, den), N)

NSelect(N, pn) == NSelectQ(N, pn, PDen)

\* s without its j-th element
RemoveAt(s, j) == SubSeq(s, 1, j - 1) \o SubSeq(s, j + 1, Len(s))

\* np.arange(n)
Arange(n) == [j \in 1 .. n |-> j - 1]

\* the permutation of `avail` the generator state r stands for
RECURSIVE PermFrom(_, _)
PermFrom(avail, r) ==
    IF avail = << >> THEN << >>
    ELSE LET n == Len(avail)
             j == (r % n) + 1
         IN  <<avail[j]>> \o PermFrom(RemoveAt(avail, j), r \div n)

\* RandomState.permutation(N) from generator state r
Permutation(N, r) == PermFrom(Arange(N), r)

\* the generator state after one permutation draw
NextRng(r) == (r + 1) % RngMod

\* variant: replace=True, every entry drawn independently
ChoiceWithReplacement(N, k, r) == [j \in 1 .. k |-> r % N]

\* variant: the draw also depends on the mask left by the previous call
ChoiceStale(N, k, r) == SubSeq(Permutation(N, r + Len(last.idx)), 1, k)

\* np.random.choice(np.arange(N), replace=False, size=k), 0 <= k <= N:
\* the first k entries of a permutation
Choice(N, k, r) == SubSeq(Permutation(N, r), 1, k)

\* The draw of line 155.  A negative size is outside numpy's contract: the
\* installed numpy either raises ValueError before touching the generator
\* (negSize = "raise") or slices permutation(N)[:k] and so returns
\* max(N + k, 0) indices (negSize = "slice").
Draw(N, k, r) ==
    IF k >= 0
    THEN [ok |-> TRUE, idx |-> Choice(N, k, r), rng |-> NextRng(r)]
    ELSE IF negSize = "raise"
    THEN [ok |-> FALSE, idx |-> << >>, rng |-> r]
    ELSE [ok |-> TRUE, idx |-> Choice(N, Max(N + k, 0), r), rng |-> NextRng(r)]

Range(s) == {s[j] : j \in DOMAIN s}

\* variant: the mask is applied to the built encoders, not to the current ones
ZeroEncodersFresh(arr, idx) ==
    [i \in DOMAIN arr |->
        IF i \in Range(idx) THEN ZeroVec ELSE [d \in 1 .. Dims |-> i + d]]

\* variant: encoder_sig[:] = 0.0
ZeroEncodersAll(arr, idx) == [i \in DOMAIN arr |-> ZeroVec]

\* encoder_sig[idx] = 0.0
ZeroEncoders(arr, idx) ==
    [i \in DOMAIN arr |-> IF i \in Range(idx) THEN ZeroVec ELSE arr[i]]

\* variant: bias_sig[idx + 1] = -1000 (indices off by one, wrapping)
SuppressBiasesShifted(arr, idx) ==
    [i \in DOMAIN arr |->
        IF \E j \in Range(idx) : i = (j + 1) % Cardinality(DOMAIN arr)
        THEN SuppressBias ELSE arr[i]]

\* variant: bias_sig[:] = -1000
SuppressBiasesAll(arr, idx) == [i \in DOMAIN arr |-> SuppressBias]

\* bias_sig[idx] = -1000
SuppressBiases(arr, idx) ==
    [i \in DOMAIN arr |-> IF i \in Range(idx) THEN SuppressBias ELSE arr[i]]

\* variant: the lookup never fails
EncodersResolvedAlways(ph, ens) == TRUE

\* sim.signals[sim.model.sig[ens]['encoders']] resolves only while the
\* context holds its arrays
EncodersResolved(ph, ens) == ph \in {"built", "ran"}

\* sim.signals[sim.model.sig[ens.neurons]['bias']]
BiasResolved(ph, ens) == ph \in {"built", "ran"} /\ ens \in BiasPops

\* variant: the rows idx are zeroed in every encoder array of the context
WriteEncodersEverywhere(e, ens, idx) ==
    [q \in DOMAIN e |-> ZeroEncoders(e[q], idx)]

\* the encoder arrays of the context after lines 157-160 for population ens
WriteEncoders(e, ens, idx) == [e EXCEPT ![ens] = ZeroEncoders(@, idx)]

\* the bias arrays of the context after lines 163-165 for population ens
WriteBiases(b, ens, idx) == [b EXCEPT ![ens] = SuppressBiases(@, idx)]

\* the WRITEABLE flag of the encoder array after lines 158-160
EncoderFlagAfter(w, ens) == [w EXCEPT ![ens] = FALSE]

\* the WRITEABLE flag of the bias array after line 164; the function ends
\* at line 165 without clearing it
BiasFlagAfter(w, ens) == [w EXCEPT ![ens] = TRUE]

\* units of population p whose encoder is all-zero in the encoder arrays e
ZeroUnits(e, p) == {i \in DOMAIN e[p] : e[p][i] = ZeroVec}

\* units of population p whose bias is the suppression constant
SuppressedUnits(b, p) == {i \in DOMAIN b[p] : b[p][i] = SuppressBias}

(* ------------------------------ actions -------------------------------- *)

\* with nengo.Simulator(model) as sim:   (entry)
Build ==
    /\ phase \in {"spec", "closed"}
    /\ phase' = "built"
    /\ enc' = BuiltEnc
    /\ bias' = BuiltBiases
    /\ gain' = BuiltGains
    /\ encW' = ReadOnly
    /\ biasW' = ReadOnly
    /\ UNCHANGED <<rng, last, negSize>>

\* sim.run(1.4)
Run ==
    /\ phase \in {"built", "ran"}
    /\ phase' = "ran"
    /\ UNCHANGED <<enc, bias, gain, encW, biasW, rng, last, negSize>>

\* with nengo.Simulator(model) as sim:   (exit) -- the arrays are discarded
Close ==
    /\ phase \in {"built", "ran"}
    /\ phase' = "closed"
    /\ enc' = Absent
    /\ bias' = Absent
    /\ gain' = Absent
    /\ encW' = ReadOnly
    /\ biasW' = ReadOnly
    /\ UNCHANGED <<rng, last, negSize>>

\* the caller fixes the state of the global generator (np.random.seed)
Reseed(s) ==
    /\ rng' = s
    /\ UNCHANGED <<phase, enc, bias, gain, encW, biasW, last, negSize>>

\* ablate_ensemble(ens, pn / PDen, sim, bias=b), the whole call
ablate_ensemble(ens, pn, b) ==
    \E d \in {Draw(n_neurons[ens], NSelect(n_neurons[ens], pn), rng)} :
        LET encOk  == d.ok /\ EncodersResolved(phase, ens)
            biasOk == encOk /\ b /\ BiasResolved(phase, ens)
            err    == IF ~d.ok THEN "draw"
                      ELSE IF ~encOk THEN "encoder_lookup"
                      ELSE IF b /\ ~biasOk THEN "bias_lookup"
                      ELSE "none"
        IN  /\ rng' = d.rng
            /\ enc' = IF encOk THEN WriteEncoders(enc, ens, d.idx) ELSE enc
            /\ encW' = IF encOk THEN EncoderFlagAfter(encW, ens) ELSE encW
            /\ bias' = IF biasOk THEN WriteBiases(bias, ens, d.idx) ELSE bias
            /\ biasW' = IF biasOk THEN BiasFlagAfter(biasW, ens) ELSE biasW
            /\ last' = [pop |-> ens, pn |-> pn, bias |-> b, rng0 |-> rng,
                        idx |-> d.idx, err |-> err]
            /\ UNCHANGED <<phase, gain, negSize>>

Ablate == \E ens \in Pops, pn \in ProportionNums, b \in BOOLEAN :
              ablate_ensemble(ens, pn, b)

Seed == \E s \in 0 .. (RngMod - 1) : Reseed(s)

Next ==
    \/ Build /\ UNCHANGED <<pc, data, state, time>>
    \/ Run /\ UNCHANGED <<pc, data, state, time>>
    \/ Close /\ UNCHANGED <<pc, data, state, time>>
    \/ Seed /\ UNCHANGED <<pc, data, state, time>>
    \/ Ablate /\ UNCHANGED <<pc, data, state, time>>

Spec == Init /\ [][Next]_vars

(* ------------------- generate_data and its callers -------------------- *)

\* vocabulary.create_pointer(attempts=500): the i-th pointer drawn from
\* RandomState(seed), a vector of `dims` numbers
create_pointer(dims, seed, i) == [d \in 1 .. dims |-> seed + 3 * i + d]

\* vocabulary.parse(B + "*" + A): circular convolution of two pointers
CircConv(b, a) ==
    LET n == Len(a)
        Term(d, j) == b[j] * a[((d - j) % n) + 1]
        Sum[d \in 1 .. n, j \in 0 .. n] ==
            IF j = 0 THEN 0 ELSE Sum[d, j - 1] + Term(d, j)
    IN  [d \in 1 .. n |-> Sum[d, n]]

\* gen_pointers(amount, vocabulary): the vocabulary after the loop, as a
\* function from key to vector
gen_pointers(dims, seed, amount) ==
    [key \in {"A", "B", "C"} \X (0 .. (amount - 1)) |->
        LET a == create_pointer(dims, seed, 2 * key[2])
            b == create_pointer(dims, seed, 2 * key[2] + 1)
        IN  IF key[1] = "A" THEN a
            ELSE IF key[1] = "B" THEN b
            ELSE CircConv(b, a)]

\* np.repeat(np.expand_dims(pointer, axis=0), steps, axis=0)
repeat_pointer(pointer, steps) == [row \in 1 .. steps |-> pointer]

\* generate_data(dims, seed, amount, steps): the arrays A, B, C it returns
generate_data(dims, seed, amount, steps) ==
    LET vocabulary == gen_pointers(dims, seed, amount)
    IN  [A |-> [i \in 1 .. amount |-> repeat_pointer(vocabulary[<<"A", i - 1>>], steps)],
         B |-> [i \in 1 .. amount |-> repeat_pointer(vocabulary[<<"B", i - 1>>], n_steps)],
         C |-> [i \in 1 .. amount |-> repeat_pointer(vocabulary[<<"C", i - 1>>], n_steps)]]

\* ndarray.shape of a non-empty three-dimensional array
Shape(arr) == <<Len(arr), Len(arr[1]), Len(arr[1][1])>>

\* a, b, c, _ = generate_data(dims, seed, amount, steps)
GenerateData(dims, seed, amount, steps) ==
    /\ \E r \in {generate_data(dims, seed, amount, steps)} :
          data' = [called |-> TRUE, dims |-> dims, seed |-> seed,
                   amount |-> amount, steps |-> steps,
                   A |-> Shape(r.A), B |-> Shape(r.B), C |-> Shape(r.C)]
    /\ UNCHANGED <<simVars, pc, state, time>>

Generate ==
    \E dims \in 1 .. MaxDims, seed \in 0 .. MaxSeed,
       amount \in 1 .. MaxAmount, steps \in StepsArgs :
        GenerateData(dims, seed, amount, steps)

DataInit == SimIdle /\ DataIdle /\ SeqIdle

DataNext == Generate

DataSpec == DataInit /\ [][DataNext]_vars

(* ---------------- the cells of the ablation notebook ------------------ *)

\* with nengo.Simulator(model) as sim:      (a cell starts)
NbEnter ==
    /\ pc.at = "cell"
    /\ Build
    /\ pc' = [pc EXCEPT !.at = "with"]
    /\ UNCHANGED <<data, state, time>>

\* ablate_ensemble(ens, pn / PDen, sim, bias=b)   (first line of the block)
NbAblate(pn, b) ==
    /\ pc.at = "with"
    /\ ~pc.ablated
    /\ ablate_ensemble("ens", pn, b)
    /\ pc' = [pc EXCEPT !.ablated = TRUE]
    /\ UNCHANGED <<data, state, time>>

\* sim.run(1.4)        (with or, as in the baseline cell, without ablation)
NbRun ==
    /\ pc.at = "with"
    /\ Run
    /\ pc' = [pc EXCEPT !.at = "ran"]
    /\ UNCHANGED <<data, state, time>>

\* the with block ends: the context closes
NbExit ==
    /\ pc.at = "ran"
    /\ Close
    /\ pc' = BetweenCells(Cardinality(ZeroUnits(enc, "ens")))
    /\ UNCHANGED <<data, state, time>>

NbAblateCell == \E pn \in 0 .. PDen, b \in BOOLEAN : NbAblate(pn, b)

NotebookInit == SimInit /\ pc = BetweenCells(0) /\ DataIdle /\ SeqIdle

NotebookNext == NbEnter \/ NbAblateCell \/ NbRun \/ NbExit

NotebookSpec == NotebookInit /\ [][NotebookNext]_vars

(* ------------------- the routed-sequence SPA model --------------------- *)

\* the semantic pointer of one symbol
SymPtr(sym) == [s \in Symbols |-> IF s = sym THEN Unity ELSE 0]

\* def start(t): the pointer the returned expression denotes
start(t) ==
    IF t < InputEnd
    THEN [s \in Symbols |->
             IF s = "START" THEN StartGain ELSE IF s = "D" THEN Unity ELSE 0]
    ELSE ZeroPtr

\* model.input = spa.Input(vision=start): what model.vision holds at time t
vision(t) == start(t)

\* dot(x, SYM) for a vocabulary of orthogonal unit vectors, in tenths
dot(x, sym) == x[sym]

\* variant: the last rule reads 'dot(state, E) --> state = E'
actionsNoWrap ==
    << [from |-> "vision", sym |-> "START", to |-> "vision"],
       [from |-> "state",  sym |-> "A",     to |-> "B"],
       [from |-> "state",  sym |-> "B",     to |-> "C"],
       [from |-> "state",  sym |-> "C",     to |-> "D"],
       [from |-> "state",  sym |-> "D",     to |-> "E"],
       [from |-> "state",  sym |-> "E",     to |-> "E"] >>

\* actions = spa.Actions(...): 'dot(from, sym) --> state = to'
actions ==
    << [from |-> "vision", sym |-> "START", to |-> "vision"],
       [from |-> "state",  sym |-> "A",     to |-> "B"],
       [from |-> "state",  sym |-> "B",     to |-> "C"],
       [from |-> "state",  sym |-> "C",     to |-> "D"],
       [from |-> "state",  sym |-> "D",     to |-> "E"],
       [from |-> "state",  sym |-> "E",     to |-> "A"] >>

\* the utility of rule r (its left-hand side) at time t with state st
Utility(r, st, t) ==
    dot(IF actions[r].from = "vision" THEN vision(t) ELSE st, actions[r].sym)

\* model.BG: the rules of largest utility; none is selected at utility 0
BG(st, t) ==
    {r \in DOMAIN actions :
        /\ Utility(r, st, t) > 0
        /\ \A q \in DOMAIN actions : Utility(q, st, t) <= Utility(r, st, t)}

\* model.thal: the value rule r routes into model.state
Thalamus(r, t) ==
    IF actions[r].to = "vision" THEN vision(t) ELSE SymPtr(actions[r].to)

\* the selected rule r takes effect
Fire(r) ==
    /\ r \in BG(state, time)
    /\ state' = Thalamus(r, time)
    /\ UNCHANGED <<simVars, pc, data, time>>

\* simulated time advances by a tenth of a second; the first routing takes
\* less than the InputEnd tenths for which the input is present
Tick ==
    /\ time < MaxTime
    /\ time + 1 < InputEnd \/ state # ZeroPtr
    /\ time' = time + 1
    /\ UNCHANGED <<simVars, pc, data, state>>

Route == \E r \in DOMAIN actions : Fire(r)

SeqInit == SimIdle /\ DataIdle /\ SeqIdle

SeqNext == Route \/ Tick

\* the basal ganglia and the thalamus act throughout the run
SeqSpec == SeqInit /\ [][SeqNext]_vars /\ WF_vars(Route)

TypeOK ==
    /\ phase \in {"spec", "built", "ran", "closed"}
    /\ rng \in 0 .. (RngMod - 1)
    /\ last.err \in {"none", "draw", "encoder_lookup", "bias_lookup"}

(* ------------------------------ properties ----------------------------- *)

\* the step is the call recorded in last'
CallStep ==
    /\ last'.pop \in Pops
    /\ ablate_ensemble(last'.pop, last'.pn, last'.bias)

\* the context holds resolved arrays
Live == phase \in {"built", "ran"}

AllDistinct(s) == \A a, b \in DOMAIN s : a # b => s[a] # s[b]

\* C1: for a proportion pn/PDen in [0,1] the call selects exactly
\* min(floor(N*p), N) indices, pairwise distinct and all in 0..N-1; for
\* N = 225 and p = 1/100 the count is 2.
C1_SelectionCount ==
    /\ NSelectQ(225, 1, 100) = 2
    /\ (last.pop \in Pops /\ last.pn \in 0 .. PDen) =>
          LET N == n_neurons[last.pop]
          IN  /\ Len(last.idx) = Min((N * last.pn) \div PDen, N)
              /\ AllDistinct(last.idx)
              /\ Range(last.idx) \subseteq 0 .. (N - 1)

\* a call on `ens` with a proportion in (0,1] drew at least two indices
C1_Witness ==
    /\ last.pop = "ens"
    /\ last.pn \in 1 .. PDen
    /\ Len(last.idx) >= 2
    /\ last.err = "none"

\* C2: a call that completes with bias=False leaves the encoder of every
\* selected unit all-zero, every other encoder of the population as it was,
\* and every bias as it was.
C2_EncodersOnly ==
    [][(CallStep /\ ~last'.bias /\ last'.err = "none") =>
          /\ \A i \in Units(last'.pop) :
                enc'[last'.pop][i] =
                    IF i \in Range(last'.idx) THEN ZeroVec ELSE enc[last'.pop][i]
          /\ bias' = bias]_vars

\* after a completed bias=False call on `ens` some units are zeroed, some
\* still carry their built encoder, and the biases are the built ones
C2_Witness ==
    /\ Live
    /\ last.pop = "ens" /\ ~last.bias /\ last.err = "none"
    /\ Len(last.idx) >= 1
    /\ \A i \in Range(last.idx) : enc["ens"][i] = ZeroVec
    /\ \E i \in Units("ens") : enc["ens"][i] = BuiltEncoder("ens", i)
    /\ bias = BuiltBiases

\* C3: a call that completes with bias=True leaves the bias of every selected
\* unit at -1000 (the units whose encoders it zeroed) and every other bias of
\* the population as it was.
C3_BiasSuppressed ==
    [][(CallStep /\ last'.bias /\ last'.err = "none") =>
          /\ \A i \in Units(last'.pop) :
                /\ bias'[last'.pop][i] =
                      IF i \in Range(last'.idx) THEN -1000 ELSE bias[last'.pop][i]
                /\ i \in Range(last'.idx) => enc'[last'.pop][i] = ZeroVec]_vars

\* after a completed bias=True call on `ens` some biases are -1000 and some
\* are the built ones
C3_Witness ==
    /\ Live
    /\ last.pop = "ens" /\ last.bias /\ last.err = "none"
    /\ Len(last.idx) >= 1
    /\ \A i \in Range(last.idx) : bias["ens"][i] = SuppressBias /\ enc["ens"][i] = ZeroVec
    /\ \E i \in Units("ens") : bias["ens"][i] = BuiltBias("ens", i)

\* C4: outside a call both the encoder array and the bias array of every
\* population are read-only.
C4_ReadOnlyRestored ==
    \A p \in Pops : ~encW[p] /\ ~biasW[p]

\* C5: a failing call, whatever step fails, leaves encoders and biases as
\* they were.
C5_FailureAtomic ==
    [][(CallStep /\ last'.err # "none") => (enc' = enc /\ bias' = bias)]_vars

C7_OutOfRangeFails ==
    [][(CallStep /\ last'.pn \notin 0 .. PDen) =>
          (last'.err # "none" /\ enc' = enc /\ bias' = bias)]_vars

\* C7 amended: the proportion is not validated.  On a live context a
\* proportion above 1 is clamped: all N units are selected and every encoder
\* of the population is zeroed.  A negative proportion with int(N*p) = 0
\* selects nothing and the draw does not fail.  The draw fails only on a
\* negative proportion with int(N*p) <= -1, and a failed draw leaves encoders,
\* biases and write flags as they were.
C7_NoValidation ==
    [][CallStep =>
          LET N == n_neurons[last'.pop]
              pn == last'.pn
          IN  /\ (Live /\ pn > PDen) =>
                    /\ last'.err \in {"none", "bias_lookup"}
                    /\ Range(last'.idx) = Units(last'.pop)
                    /\ \A i \in Units(last'.pop) : enc'[last'.pop][i] = ZeroVec
              /\ (pn < 0 /\ N * (-pn) < PDen) =>
                    (last'.err # "draw" /\ last'.idx = << >>)
              /\ last'.err = "draw" =>
                    /\ pn < 0 /\ N * (-pn) >= PDen
                    /\ UNCHANGED <<enc, bias, encW, biasW>>]_vars

\* a completed call with a proportion above 1 after which every encoder of
\* `ens` is zero
C7_Witness ==
    /\ Live
    /\ last.pop = "ens" /\ last.pn > PDen /\ last.err = "none"
    /\ \A i \in Units("ens") : enc["ens"][i] = ZeroVec

C9_AblateAll ==
    [][(CallStep /\ Live /\ last'.pn = PDen) =>
          /\ Len(last'.idx) = n_neurons[last'.pop]
          /\ Range(last'.idx) = Units(last'.pop)
          /\ \A i \in Units(last'.pop) : enc'[last'.pop][i] = ZeroVec
          /\ (last'.bias /\ last'.err = "none") =>
                \A i \in Units(last'.pop) : bias'[last'.pop][i] = -1000]_vars

\* after a completed call with proportion 1 and bias=True every unit of
\* `ens` is ablated
C9_Witness ==
    /\ Live
    /\ last.pop = "ens" /\ last.pn = PDen /\ last.bias /\ last.err = "none"
    /\ \A i \in Units("ens") : enc["ens"][i] = ZeroVec /\ bias["ens"][i] = -1000

C11_GainZeroed ==
    [][(CallStep /\ last'.err = "none") =>
          \A i \in Range(last'.idx) : gain'[last'.pop][i] = 0]_vars

\* C15: within one simulation context no step un-zeroes an encoder or
\* un-suppresses a bias, and every call makes the set of zero-encoder units
\* the union of what it was and the indices the call selected; so its size
\* is at least the larger of the old size and k and at most the smaller of
\* N and old size + k.
C15_Monotone ==
    [][(Live /\ phase' \in {"built", "ran"}) =>
          /\ \A p \in Pops :
                /\ ZeroUnits(enc, p) \subseteq ZeroUnits(enc', p)
                /\ SuppressedUnits(bias, p) \subseteq SuppressedUnits(bias', p)
          /\ CallStep =>
                LET p == last'.pop
                    k == Len(last'.idx)
                    z0 == Cardinality(ZeroUnits(enc, p))
                    z1 == Cardinality(ZeroUnits(enc', p))
                IN  /\ ZeroUnits(enc', p) = ZeroUnits(enc, p) \cup Range(last'.idx)
                    /\ z1 >= Max(z0, k)
                    /\ z1 <= Min(n_neurons[p], z0 + k)]_vars

\* several calls have accumulated: more units of `ens` are zeroed than the
\* last call selected, and not all of them
C15_Witness ==
    /\ Live
    /\ last.pop = "ens" /\ last.err = "none"
    /\ Len(last.idx) >= 1
    /\ Cardinality(ZeroUnits(enc, "ens")) > Len(last.idx)
    /\ Cardinality(ZeroUnits(enc, "ens")) < NEns

\* C16: in a live context every unit whose bias is -1000 has an all-zero
\* encoder.
C16_SuppressedAreZeroed ==
    Live => \A p \in Pops : SuppressedUnits(bias, p) \subseteq ZeroUnits(enc, p)

\* calls with both bias flags have completed: one unit is suppressed and
\* zeroed, another is zeroed but keeps its built bias
C16_Witness ==
    /\ Live
    /\ last.err = "none"
    /\ \E i \in Units("ens") : bias["ens"][i] = SuppressBias /\ enc["ens"][i] = ZeroVec
    /\ \E i \in Units("ens") :
          bias["ens"][i] = BuiltBias("ens", i) /\ enc["ens"][i] = ZeroVec

\* C14: generate_data returns A, B and C with the same shape
\* [amount, steps, dims], whatever `steps` is.
C14_SameShape ==
    data.called =>
        /\ data.A = <<data.amount, data.steps, data.dims>>
        /\ data.B = data.A
        /\ data.C = data.A

\* C12: in the notebook's cells ablation state is local to its context: a
\* call happens only on a built context that has not run, every build
\* starts with no zero-encoder unit, and while a context has run the
\* number of zero-encoder units of `ens` is that context's own k (0 without
\* an ablation), whatever was ablated in earlier contexts; 10% of 225 is 22.
C12_ContextLocal ==
    /\ NSelectQ(225, 1, 10) = 22
    /\ [](phase = "ran" =>
            Cardinality(ZeroUnits(enc, "ens")) =
                IF pc.ablated THEN NSelect(n_neurons["ens"], last.pn) ELSE 0)
    /\ [][/\ CallStep => (phase = "built" /\ phase' = "built")
          /\ (phase' = "built" /\ phase # "built") =>
                \A p \in Pops : ZeroUnits(enc', p) = {}]_vars

\* a context ablated with k >= 1 units has run after an earlier context,
\* itself ablated with prevK >= 1 units, has closed: exactly k units are
\* zeroed, fewer than prevK + k
C12_Witness ==
    /\ phase = "ran"
    /\ pc.ablated
    /\ pc.prevK >= 1
    /\ Len(last.idx) >= 1
    /\ Cardinality(ZeroUnits(enc, "ens")) = Len(last.idx)
    /\ pc.prevK + Len(last.idx) <= NEns

\* the symbol following sym in the sequence the notebook describes
CycleNext(sym) ==
    CASE sym = "A" -> "B" [] sym = "B" -> "C" [] sym = "C" -> "D"
      [] sym = "D" -> "E" [] sym = "E" -> "A"

\* model.state holds symbol sym at full strength
Holds(sym) == dot(state, sym) = Unity

\* C13: each of A..E has exactly one rule on the state, leading to the next
\* symbol of A -> B -> C -> D -> E -> A, so five firings lead back to the
\* same symbol; the state enters the cycle at D, every change of a state
\* holding a symbol leads to the next symbol, and once the input is removed
\* each of A..E is held again and again.
C13_Cycle ==
    /\ \A sym \in Symbols \ {"START"} :
          /\ Cardinality({r \in DOMAIN actions :
                 actions[r].from = "state" /\ actions[r].sym = sym}) = 1
          /\ \A r \in DOMAIN actions :
                 (actions[r].from = "state" /\ actions[r].sym = sym)
                     => actions[r].to = CycleNext(sym)
          /\ CycleNext(CycleNext(CycleNext(CycleNext(CycleNext(sym))))) = sym
    /\ [][state' # state =>
            /\ state = ZeroPtr => Holds("D")'
            /\ \A sym \in Symbols \ {"START"} :
                   Holds(sym) => Holds(CycleNext(sym))']_vars
    /\ \A sym \in Symbols \ {"START"} :
          [](time >= InputEnd => <>Holds(sym))

\* the input is gone and the state, entered at D, has come round to C
C13_Witness ==
    /\ time >= InputEnd
    /\ Holds("C")
    /\ state = SymPtr("C")

=============================================================================
